---- MODULE Spec2Model ----
(***************************************************************************)
(* Shelly cover control scripts.                                           *)
(*                                                                         *)
(* Four scripts are modelled, selected by the variable `variant`:          *)
(*   "slat"       src/unnamed/part_000 lines    1 ..  431 (slat support)   *)
(*   "plain"      src/unnamed/part_000 lines  433 ..  740                  *)
(*   "plainDebug" src/unnamed/part_000 lines  742 .. 1079                  *)
(*   "ws4"        src/ShellyCoverWallSwitch4ControlScript.js               *)
(*                                                                         *)
(* Spec        : the event handler (router) and the cover guard.           *)
(* SpecProv    : initVirtualComponents against the host's component store. *)
(* SpecTrigger : triggerButtonEvent and the completion of its request.     *)
(* SpecBoot    : script start, the startup timer, the subscription.        *)
(* SpecCmd     : cover commands in flight and their completion callbacks.  *)
(* SpecFresh   : the status each guard invocation reads.                   *)
(***************************************************************************)
EXTENDS Integers, Sequences, FiniteSets, TLC

VARIABLES
    variant,    \* which script is installed
    table,      \* CONFIG.eventActions of the installed script
    debug,      \* CONFIG.debug
    cover,      \* what Shelly.getComponentStatus("cover", coverId) returns now
    last,       \* what the event handler did in the latest step, if that
                \* step delivered an event
    store,      \* the host's virtual components: button id -> name
    rpc,        \* Virtual.* calls issued and not yet executed by the host
    prov,       \* what the latest run of initVirtualComponents read and issued
    sys,        \* startup: the script's position, its timer, its handlers
    inflight,   \* Shelly.call requests whose completion callback has not run
    done,       \* what the latest completion callback did
    seen,       \* the statuses the latest two guard invocations read
    trig        \* the latest call of triggerButtonEvent and what it did

vars == <<variant, table, debug, cover, last, store, rpc, prov,
          sys, inflight, done, seen, trig>>

\* The variables that Spec and SpecProv leave alone.
hostVars == <<sys, inflight, done, seen, trig>>

-----------------------------------------------------------------------------
(* Values *)

\* JavaScript undefined, for an optional number.
Undef == -1

\* CONFIG.coverId
coverId == 0

Variants == {"slat", "plain", "plainDebug", "ws4"}

\* The tokens compared against status.state, and "stopped" for a settled
\* cover that is neither open nor closed.
MovingStates == {"opening", "closing", "calibrating"}
SettledStates == {"open", "close", "stopped"}
CoverStates == MovingStates \cup SettledStates

\* slat_pos readings tried; Undef is a status without slat_pos.
SlatVals == {Undef, 0, 10, 90, 100}

\* getComponentStatus returned null.
NoStatus == [present |-> FALSE, state |-> "none", slat_pos |-> Undef]

Statuses ==
    {NoStatus} \cup
    [present : {TRUE}, state : CoverStates, slat_pos : SlatVals]

EVENT_ALL == "all"
EVENT_BUTTON_SINGLE_PUSH == "single_push"
EVENT_BUTTON_LONG_PUSH == "long_push"

EventTypes == {EVENT_BUTTON_SINGLE_PUSH, EVENT_BUTTON_LONG_PUSH}

\* Largest payload index delivered by the multi-button device in the model;
\* the scripts know 0..3.
MaxIdx == 4

\* Components that send events: the sources of the shipped table, one
\* source of a known family without a table entry, and one foreign source.
TableComponents ==
    {"button:200", "button:201", "bthomesensor:201", "bthomesensor:202",
     "bthomesensor:203", "bthomesensor:204", "bthomedevice:200"}
Components == TableComponents \cup {"button:202", "input:0"}

\* The family prefix of a component name, i.e. the text up to and including
\* the colon.
Prefix(c) ==
    CASE c \in {"button:200", "button:201", "button:202"} -> "button:"
      [] c \in {"bthomesensor:201", "bthomesensor:202", "bthomesensor:203",
                "bthomesensor:204"} -> "bthomesensor:"
      [] c = "bthomedevice:200" -> "bthomedevice:"
      [] OTHER -> "input:"

\* An inbound event: event.component, event.info.component, event.info.event,
\* event.info.idx (Undef unless the source is the multi-button device).
Events ==
    { [component |-> c, event |-> t, idx |-> i] :
        c \in Components \ {"bthomedevice:200"}, t \in EventTypes, i \in {Undef} }
    \cup
    { [component |-> "bthomedevice:200", event |-> t, idx |-> i] :
        t \in EventTypes, i \in 0..MaxIdx }

-----------------------------------------------------------------------------
(* Outcomes: what a piece of script code did, in order: the table entries  *)
(* whose action ran, the guard invocations, the Shelly.call commands, the  *)
(* log lines, and whether it threw.                                        *)

Out(fired, invs, cmds, log, threw) ==
    [fired |-> fired, invs |-> invs, cmds |-> cmds, log |-> log,
     threw |-> threw]

NoOut == Out(<<>>, <<>>, <<>>, <<>>, FALSE)

\* An uncaught exception.
Throw == Out(<<>>, <<>>, <<>>, <<>>, TRUE)

\* o1 and then, unless o1 threw, o2.
Then(o1, o2) ==
    IF o1.threw THEN o1
    ELSE Out(o1.fired \o o2.fired, o1.invs \o o2.invs, o1.cmds \o o2.cmds,
             o1.log \o o2.log, o2.threw)

\* Shelly.call of a Cover.* method with its params object; the completion
\* callback is not run here.
ShellyCall(method, pos, slat_pos) ==
    Out(<<>>, <<>>,
        << [method |-> method, id |-> coverId, pos |-> pos,
            slat_pos |-> slat_pos] >>,
        <<>>, FALSE)

print(line) == Out(<<>>, <<>>, <<>>, << [level |-> "print", msg |-> line] >>, FALSE)

debugLog(dbg, line) ==
    IF dbg THEN Out(<<>>, <<>>, <<>>, << [level |-> "debug", msg |-> line] >>, FALSE)
    ELSE NoOut

errorLog(line) ==
    Out(<<>>, <<>>, <<>>, << [level |-> "error", msg |-> line] >>, FALSE)

\* The "plain" script has no debugLog/errorLog and prints instead.
HasDebugLog(v) == v \in {"slat", "plainDebug"}

-----------------------------------------------------------------------------
(* Commands *)

coverStop(v) ==
    Then(IF v = "ws4" THEN NoOut ELSE print("Stopping cover"),
         ShellyCall("Cover.Stop", Undef, Undef))

\* Mutant: the open helper calls Cover.Close.
coverOpenCallsClose(v) ==
    Then(IF v = "ws4" THEN NoOut ELSE print("Opening cover"),
         ShellyCall("Cover.Close", Undef, Undef))

coverOpen(v) ==
    Then(IF v = "ws4" THEN NoOut ELSE print("Opening cover"),
         ShellyCall("Cover.Open", Undef, Undef))

coverClose(v) ==
    Then(IF v = "ws4" THEN NoOut ELSE print("Closing cover"),
         ShellyCall("Cover.Close", Undef, Undef))

coverGoToPosition(pos, slat_pos) ==
    ShellyCall("Cover.GoToPosition", pos, slat_pos)

\* Mutant: the params object carries pos as well, set to the slat target.
coverSetSlatPositionWithPos(position) == coverGoToPosition(position, position)

coverSetSlatPosition(position) == coverGoToPosition(Undef, position)

\* Mutant: calibrating is not taken to be moving.
coverIsMovingNoCalibrating(status) ==
    \/ status.state = "opening"
    \/ status.state = "closing"

\* status.state of a null status is a TypeError; callers test `present`
\* where the script tests !status.
coverIsMoving(status) ==
    \/ status.state = "opening"
    \/ status.state = "closing"
    \/ status.state = "calibrating"

Min(a, b) == IF a < b THEN a ELSE b
Max(a, b) == IF a > b THEN a ELSE b

SlatDefault == 50
SlatStep == 25
SlatMax == 100
SlatMin == 0


-----------------------------------------------------------------------------
(* The cover guard *)

\* One guard invocation: the action asked for, the status it read, and what
\* it did.
Invocation(action, status, o) ==
    Out(<<>>,
        << [action |-> action, status |-> status, cmds |-> o.cmds,
            log |-> o.log, threw |-> o.threw] >>,
        o.cmds, o.log, o.threw)

\* Mutant: an unreported slat position is taken to be 0.
CurrentSlatPosDefaultsToMin(status) ==
    IF status.slat_pos # Undef THEN status.slat_pos ELSE SlatMin

\* const currentSlatPos of the "slat" script.
CurrentSlatPos(status) ==
    IF status.slat_pos # Undef THEN status.slat_pos ELSE SlatDefault

\* Mutant: the Math.min(100, ...) around the new position is missing.
NewSlatPosNoUpperClamp(status, action) ==
    LET adjustment == IF action = "slat_open" THEN SlatStep ELSE -SlatStep
    IN  Max(SlatMin, CurrentSlatPos(status) + adjustment)

\* const newSlatPos of the "slat" script.
NewSlatPos(status, action) ==
    LET adjustment == IF action = "slat_open" THEN SlatStep ELSE -SlatStep
    IN  Min(SlatMax, Max(SlatMin, CurrentSlatPos(status) + adjustment))

\* Mutant: coverSetSlatPosition is called inside the `if (CONFIG.debug)`
\* of the log line before it.
handleSettledSlatCommandInDebug(dbg, status, action) ==
    IF action = "slat_open" \/ action = "slat_close" THEN
        IF NewSlatPos(status, action) # CurrentSlatPos(status) /\ dbg
        THEN Then(debugLog(dbg, "Adjusting slat position"),
                  coverSetSlatPosition(NewSlatPos(status, action)))
        ELSE NoOut
    ELSE CASE action = "open" ->
                IF status.state # "open" THEN coverOpen("slat")
                ELSE debugLog(dbg, "Cover is already open")
           [] action = "close" ->
                IF status.state # "close" THEN coverClose("slat")
                ELSE debugLog(dbg, "Cover is already closed")
           [] OTHER -> debugLog(dbg, "Unknown cover action")

\* handleCoverAction of the "slat" script from the slat test on, reached
\* with a status whose cover is not moving.
handleSettledSlat(dbg, status, action) ==
    IF action = "slat_open" \/ action = "slat_close" THEN
        IF NewSlatPos(status, action) # CurrentSlatPos(status)
        THEN Then(debugLog(dbg, "Adjusting slat position"),
                  coverSetSlatPosition(NewSlatPos(status, action)))
        ELSE NoOut
    ELSE CASE action = "open" ->
                IF status.state # "open" THEN coverOpen("slat")
                ELSE debugLog(dbg, "Cover is already open")
           [] action = "close" ->
                IF status.state # "close" THEN coverClose("slat")
                ELSE debugLog(dbg, "Cover is already closed")
           [] OTHER -> debugLog(dbg, "Unknown cover action")

\* Mutant: the `return` after coverStop() is missing.
handleCoverActionSlatNoReturn(dbg, status, action) ==
    IF ~status.present THEN errorLog("Unable to retrieve cover status")
    ELSE Then(IF coverIsMoving(status) THEN coverStop("slat") ELSE NoOut,
              handleSettledSlat(dbg, status, action))

\* handleCoverAction of the "slat" script, after the status was read.
handleCoverActionSlat(dbg, status, action) ==
    IF ~status.present THEN errorLog("Unable to retrieve cover status")
    ELSE IF coverIsMoving(status) THEN coverStop("slat")
    ELSE handleSettledSlat(dbg, status, action)

\* Mutant: the close test compares the state with "closed".
handleCoverActionPlainClosedToken(v, dbg, status, action) ==
    IF ~status.present THEN
        IF v = "plain" THEN print("Error: Unable to retrieve cover status")
        ELSE errorLog("Unable to retrieve cover status")
    ELSE IF coverIsMoving(status) THEN coverStop(v)
    ELSE IF action = "open" /\ status.state # "open" THEN coverOpen(v)
    ELSE IF action = "close" /\ status.state # "closed" THEN coverClose(v)
    ELSE IF v = "plain" THEN print("Cover is already in the state")
    ELSE debugLog(dbg, "Cover is already in the state")

\* handleCoverAction of the "plain" and "plainDebug" scripts.
handleCoverActionPlain(v, dbg, status, action) ==
    IF ~status.present THEN
        IF v = "plain" THEN print("Error: Unable to retrieve cover status")
        ELSE errorLog("Unable to retrieve cover status")
    ELSE IF coverIsMoving(status) THEN coverStop(v)
    ELSE IF action = "open" /\ status.state # "open" THEN coverOpen(v)
    ELSE IF action = "close" /\ status.state # "close" THEN coverClose(v)
    ELSE IF v = "plain" THEN print("Cover is already in the state")
    ELSE debugLog(dbg, "Cover is already in the state")

\* Mutant: the open branch does not test the state.
handleCoverActionWs4NoOpenTest(status, action) ==
    IF ~status.present THEN Throw
    ELSE IF coverIsMoving(status) THEN coverStop("ws4")
    ELSE IF action = "open" THEN coverOpen("ws4")
    ELSE IF action = "close" /\ status.state # "close" THEN coverClose("ws4")
    ELSE NoOut

\* The guard written inline in the "ws4" handler: it reads status.state
\* without testing the status, so a null status is a TypeError.
handleCoverActionWs4(status, action) ==
    IF ~status.present THEN Throw
    ELSE IF coverIsMoving(status) THEN coverStop("ws4")
    ELSE IF action = "open" /\ status.state # "open" THEN coverOpen("ws4")
    ELSE IF action = "close" /\ status.state # "close" THEN coverClose("ws4")
    ELSE NoOut

\* handleCoverAction(action) of script v with Shelly.getComponentStatus
\* returning `status`.
handleCoverAction(v, dbg, status, action) ==
    Invocation(action, status,
        CASE v = "slat" -> handleCoverActionSlat(dbg, status, action)
          [] v = "ws4" -> handleCoverActionWs4(status, action)
          [] OTHER -> handleCoverActionPlain(v, dbg, status, action))


-----------------------------------------------------------------------------
(* CONFIG.eventActions and the event handlers *)

\* A table entry. Its action closure is given by `label`, the line it
\* prints, and `do`, what it does next: calls handleCoverAction("open") or
\* ("close"), nothing ("none"), switches on event.info.idx ("byIdx"), or
\* raises ("throw").
Entry(component, event, label, do) ==
    [component |-> component, event |-> event, label |-> label, do |-> do]

\* The table the three part_000 scripts ship with.
ConfigTable ==
    << Entry("button:200", EVENT_ALL, "CoverAction Open Event", "open"),
       Entry("button:201", EVENT_ALL, "CoverAction Close Event", "close"),
       Entry("bthomesensor:201", EVENT_ALL, "TOP LEFT BUTTON PRESSED EVENT", "open"),
       Entry("bthomesensor:202", EVENT_ALL, "BOTTOM LEFT BUTTON PRESSED EVENT", "close"),
       Entry("bthomesensor:203", EVENT_ALL, "TOP RIGHT BUTTON PRESSED EVENT", "none"),
       Entry("bthomesensor:204", EVENT_ALL, "BOTTOM RIGHT BUTTON PRESSED EVENT", "none"),
       Entry("bthomedevice:200", EVENT_ALL, "", "byIdx") >>

\* A table with two entries for one source, the second a wildcard.
OverlapTable ==
    << Entry("button:200", EVENT_BUTTON_SINGLE_PUSH, "f1", "open"),
       Entry("button:200", EVENT_ALL, "f2", "close") >>

\* A table whose first action raises.
RaisingTable ==
    << Entry("button:200", EVENT_ALL, "f1", "throw"),
       Entry("button:201", EVENT_ALL, "f2", "close") >>

Tables == {ConfigTable, OverlapTable, RaisingTable}

\* Mutant: `case 0` has no `break` and falls through into `case 1`.
ByIdxFallsThrough(v, dbg, status, event) ==
    CASE event.idx = 0 ->
            Then(Then(print("TOP LEFT BUTTON PRESSED EVENT"),
                      handleCoverAction(v, dbg, status, "open")),
                 Then(print("BOTTOM LEFT BUTTON PRESSED EVENT"),
                      handleCoverAction(v, dbg, status, "close")))
      [] event.idx = 1 ->
            Then(print("BOTTOM LEFT BUTTON PRESSED EVENT"),
                 handleCoverAction(v, dbg, status, "close"))
      [] event.idx = 2 ->
            Then(print("TOP RIGHT BUTTON PRESSED EVENT"),
                 handleCoverAction(v, dbg, status,
                     IF v = "slat" THEN "slat_open" ELSE "open"))
      [] event.idx = 3 ->
            Then(print("BOTTOM RIGHT BUTTON PRESSED EVENT"),
                 handleCoverAction(v, dbg, status,
                     IF v = "slat" THEN "slat_close" ELSE "close"))
      [] OTHER -> NoOut

\* The action closure of the bthomedevice:200 entry.
ByIdx(v, dbg, status, event) ==
    CASE event.idx = 0 ->
            Then(print("TOP LEFT BUTTON PRESSED EVENT"),
                 handleCoverAction(v, dbg, status, "open"))
      [] event.idx = 1 ->
            Then(print("BOTTOM LEFT BUTTON PRESSED EVENT"),
                 handleCoverAction(v, dbg, status, "close"))
      [] event.idx = 2 ->
            Then(print("TOP RIGHT BUTTON PRESSED EVENT"),
                 handleCoverAction(v, dbg, status,
                     IF v = "slat" THEN "slat_open" ELSE "open"))
      [] event.idx = 3 ->
            Then(print("BOTTOM RIGHT BUTTON PRESSED EVENT"),
                 handleCoverAction(v, dbg, status,
                     IF v = "slat" THEN "slat_close" ELSE "close"))
      [] OTHER -> NoOut

\* eac.action(event) for the entry at index i.
RunAction(v, dbg, status, eac, i, event) ==
    Then(Out(<<i>>, <<>>, <<>>, <<>>, FALSE),
        CASE eac.do = "open" ->
                Then(print(eac.label), handleCoverAction(v, dbg, status, "open"))
          [] eac.do = "close" ->
                Then(print(eac.label), handleCoverAction(v, dbg, status, "close"))
          [] eac.do = "none" -> print(eac.label)
          [] eac.do = "byIdx" -> ByIdx(v, dbg, status, event)
          [] OTHER -> Throw)

\* Mutant: the test of the forEach callback does not compare the source.
MatchesEventTypeOnly(eac, event) ==
    event.event = eac.event \/ eac.event = EVENT_ALL

\* The test of the forEach callback.
Matches(eac, event) ==
    /\ event.component = eac.component
    /\ (event.event = eac.event \/ eac.event = EVENT_ALL)

\* CONFIG.eventActions.forEach(callback) from index i on. The callback's
\* `return` ends the callback for that entry, and forEach goes on with the
\* next entry; an exception ends forEach.
RECURSIVE ForEachAction(_, _, _, _, _, _)
ForEachAction(v, dbg, status, tbl, i, event) ==
    IF i > Len(tbl) THEN NoOut
    ELSE Then(IF Matches(tbl[i], event)
              THEN RunAction(v, dbg, status, tbl[i], i, event)
              ELSE NoOut,
              ForEachAction(v, dbg, status, tbl, i + 1, event))

FamilyPrefixes == {"bthomesensor:", "bthomedevice:", "button:"}

\* The handler that initEventActions registers (part_000 scripts).
EventHandler(v, dbg, status, tbl, event) ==
    IF ~(Prefix(event.component) \in FamilyPrefixes) THEN NoOut
    ELSE Then(IF v = "plain" THEN print("Event received for component")
              ELSE debugLog(dbg, "Event received"),
              ForEachAction(v, dbg, status, tbl, 1, event))

isOpenButtonPressed(event) ==
    \/ event.component = "bthomesensor:201"
    \/ event.component = "bthomesensor:203"

\* Mutant: bthomesensor:204 is not taken to be a close button.
isCloseButtonPressedOnly202(event) ==
    event.component = "bthomesensor:202"

isCloseButtonPressed(event) ==
    \/ event.component = "bthomesensor:202"
    \/ event.component = "bthomesensor:204"

\* The handler of the "ws4" script.
EventHandlerWs4(status, event) ==
    IF isOpenButtonPressed(event) THEN
        Then(print("Open button pressed"),
             handleCoverAction("ws4", FALSE, status, "open"))
    ELSE IF isCloseButtonPressed(event) THEN
        Then(print("Close button pressed"),
             handleCoverAction("ws4", FALSE, status, "close"))
    ELSE NoOut

-----------------------------------------------------------------------------
(* Spec: events and cover changes *)

\* What `last` holds: the event and what its handler did.
Handled(event, o) ==
    [event |-> event, fired |-> o.fired, invs |-> o.invs, cmds |-> o.cmds,
     log |-> o.log, raised |-> o.threw]

NoEvent == [component |-> "", event |-> "", idx |-> Undef]

\* `prov` while only events are looked at.
NoProv == [phase |-> "none"]

\* `sys` while the startup is not looked at.
NoSys == [pc |-> "none"]

\* `done` when no completion callback ran in the latest step.
NoDone == [method |-> "", error_code |-> 0, cmds |-> <<>>, log |-> <<>>]

\* `trig` when triggerButtonEvent was not called in the latest step.
NoTrig == [called |-> FALSE]

\* The variables of the other specifications, at rest.
HostIdle ==
    /\ sys = NoSys
    /\ inflight = <<>>
    /\ done = NoDone
    /\ seen = <<>>
    /\ trig = NoTrig

Init ==
    /\ variant \in Variants
    /\ table \in (IF variant = "ws4" THEN {<<>>} ELSE Tables)
    /\ debug \in (IF HasDebugLog(variant) THEN BOOLEAN ELSE {FALSE})
    /\ cover \in Statuses
    /\ last = Handled(NoEvent, NoOut)
    /\ store = <<>>
    /\ rpc = <<>>
    /\ prov = NoProv
    /\ HostIdle

\* The host delivers an event to the registered handler of a part_000
\* script.
HandleEvent ==
    /\ variant # "ws4"
    /\ \E event \in Events :
          last' = Handled(event, EventHandler(variant, debug, cover, table, event))
    /\ UNCHANGED <<variant, table, debug, cover, store, rpc, prov>>
    /\ UNCHANGED hostVars

\* The host delivers an event to the handler of the "ws4" script.
HandleEventWs4 ==
    /\ variant = "ws4"
    /\ \E event \in Events :
          last' = Handled(event, EventHandlerWs4(cover, event))
    /\ UNCHANGED <<variant, table, debug, cover, store, rpc, prov>>
    /\ UNCHANGED hostVars

\* The actuator, or the status provider, changes what it reports.
CoverChanges ==
    /\ \E status \in Statuses : status # cover /\ cover' = status
    /\ last' = Handled(NoEvent, NoOut)
    /\ UNCHANGED <<variant, table, debug, store, rpc, prov>>
    /\ UNCHANGED hostVars

Next == HandleEvent \/ HandleEventWs4 \/ CoverChanges

Spec == Init /\ [][Next]_vars


-----------------------------------------------------------------------------
(* SpecProv: initVirtualComponents and the host's virtual components *)

\* The lowest id of a virtual component, as in "button:200".
FirstId == 200

\* How many ids the host has for virtual buttons in the model.
NumIds == 3

ButtonIds == FirstId..(FirstId + NumIds - 1)

\* A component key "type:id"; key.split(":")[0] is its type.
Key(type, id) == [type |-> type, id |-> id]
KeyType(key) == key.type

\* CONFIG.virtualComponents
virtualComponents ==
    << [key |-> Key("button", 200), name |-> "CoverAction Open"],
       [key |-> Key("button", 201), name |-> "CoverAction Close"] >>

\* Names a virtual button may carry: the declared ones and another one.
Names == {"CoverAction Open", "CoverAction Close", "Other"}

\* Shelly.getComponentConfig(key) is null.
NoComponent == [exists |-> FALSE, name |-> ""]

Component(name) == [exists |-> TRUE, name |-> name]

\* The virtual buttons of the host, by id. Components of other types have
\* ids of their own and are left out.
Stores == [ButtonIds -> {NoComponent} \cup { Component(n) : n \in Names }]

getComponentConfig(st, key) ==
    IF key.type = "button" /\ key.id \in DOMAIN st THEN st[key.id]
    ELSE NoComponent

\* Shelly.call("Virtual.Delete", {key}) and
\* Shelly.call("Virtual.Add", {type, config: {name}}): the call is queued
\* for the host; no callback is given. Virtual.Add carries no id.
VirtualDelete(key) ==
    [method |-> "Virtual.Delete", key |-> key, type |-> "", name |-> ""]
VirtualAdd(type, name) ==
    [method |-> "Virtual.Add", key |-> Key("", Undef), type |-> type,
     name |-> name]

\* What one pass of the forEach callback did: the config it read and the
\* calls it issued.
Pass(config, component, calls, log) ==
    [reads |-> << [key |-> config.key, component |-> component] >>,
     calls |-> calls, log |-> log]

\* The log line before a call: debugLog, or print in the "plain" script.
ProvLog(v, dbg, line) ==
    IF v = "plain" THEN << [level |-> "print", msg |-> line] >>
    ELSE IF dbg THEN << [level |-> "debug", msg |-> line] >>
    ELSE <<>>

\* Mutant: a component with another name is added again without deleting
\* the existing one.
ReconcileOneNoDelete(v, dbg, st, config) ==
    LET component == getComponentConfig(st, config.key) IN
    IF ~component.exists \/ component.name # config.name THEN
        Pass(config, component,
             << VirtualAdd(KeyType(config.key), config.name) >>,
             ProvLog(v, dbg, "Adding virtual component"))
    ELSE Pass(config, component, <<>>, <<>>)

\* The forEach callback of initVirtualComponents for one declared
\* component, with the store as the host holds it.
ReconcileOne(v, dbg, st, config) ==
    LET component == getComponentConfig(st, config.key) IN
    IF ~component.exists \/ component.name # config.name THEN
        Pass(config, component,
             (IF component.exists THEN << VirtualDelete(config.key) >> ELSE <<>>)
                \o << VirtualAdd(KeyType(config.key), config.name) >>,
             (IF component.exists
              THEN ProvLog(v, dbg, "Deleting virtual component") ELSE <<>>)
                \o ProvLog(v, dbg, "Adding virtual component"))
    ELSE Pass(config, component, <<>>, <<>>)

\* CONFIG.virtualComponents.forEach(callback) from index i on. The calls
\* are asynchronous, so every pass reads the store as it was at the start.
RECURSIVE ForEachComponent(_, _, _, _)
ForEachComponent(v, dbg, st, i) ==
    IF i > Len(virtualComponents) THEN [reads |-> <<>>, calls |-> <<>>, log |-> <<>>]
    ELSE LET one == ReconcileOne(v, dbg, st, virtualComponents[i])
             rest == ForEachComponent(v, dbg, st, i + 1)
         IN  [reads |-> one.reads \o rest.reads,
              calls |-> one.calls \o rest.calls,
              log |-> one.log \o rest.log]

initVirtualComponents(v, dbg, st) ==
    LET all == ForEachComponent(v, dbg, st, 1) IN
    [reads |-> all.reads, calls |-> all.calls,
     log |-> << [level |-> "print", msg |-> "Initializing virtual components"] >>
             \o all.log
             \o << [level |-> "print", msg |-> "Virtual components initialized"] >>]

\* How often the script is started in the model.
MaxRuns == 2

\* `prov` before the script has run.
ProvBoot ==
    [phase |-> "boot", run |-> 0, reads |-> <<>>, calls |-> <<>>,
     log |-> <<>>, ok |-> TRUE, prevOk |-> FALSE]

InitProv ==
    /\ variant \in Variants \ {"ws4"}
    /\ table = ConfigTable
    /\ debug \in (IF HasDebugLog(variant) THEN BOOLEAN ELSE {FALSE})
    /\ cover = NoStatus
    /\ last = Handled(NoEvent, NoOut)
    /\ store \in Stores
    /\ rpc = <<>>
    /\ prov = ProvBoot
    /\ HostIdle

\* The script starts and runs initVirtualComponents(). prevOk records
\* whether the run before this one had every call completed successfully.
StartScript ==
    /\ prov.phase = "boot"
    /\ LET r == initVirtualComponents(variant, debug, store) IN
       /\ prov' = [phase |-> "started", run |-> prov.run + 1,
                   reads |-> r.reads, calls |-> r.calls, log |-> r.log,
                   ok |-> TRUE, prevOk |-> (prov.run >= 1 /\ prov.ok)]
       /\ rpc' = r.calls
    /\ UNCHANGED <<variant, table, debug, cover, last, store>>
    /\ UNCHANGED hostVars

FreeIds(st) == { id \in DOMAIN st : ~st[id].exists }

\* The host executes the oldest queued Virtual.Delete successfully.
HostDeletes ==
    /\ rpc # <<>>
    /\ Head(rpc).method = "Virtual.Delete"
    /\ getComponentConfig(store, Head(rpc).key).exists
    /\ store' = [store EXCEPT ![Head(rpc).key.id] = NoComponent]
    /\ rpc' = Tail(rpc)
    /\ UNCHANGED <<variant, table, debug, cover, last, prov>>
    /\ UNCHANGED hostVars

\* The host executes the oldest queued Virtual.Add successfully. The call
\* names a type and a name and no id: the host picks a free id of the type.
HostAdds ==
    /\ rpc # <<>>
    /\ Head(rpc).method = "Virtual.Add"
    /\ \E id \in FreeIds(store) :
          store' = [store EXCEPT ![id] = Component(Head(rpc).name)]
    /\ rpc' = Tail(rpc)
    /\ UNCHANGED <<variant, table, debug, cover, last, prov>>
    /\ UNCHANGED hostVars

\* Mutant: a failed call takes the calls queued behind it with it.
HostFailsDropsQueue ==
    /\ rpc # <<>>
    /\ rpc' = <<>>
    /\ prov' = [prov EXCEPT !.ok = FALSE]
    /\ UNCHANGED <<variant, table, debug, cover, last, store>>
    /\ UNCHANGED hostVars

\* The host fails the oldest queued call. The script gave no callback and
\* does not learn of it.
HostFails ==
    /\ rpc # <<>>
    /\ rpc' = Tail(rpc)
    /\ prov' = [prov EXCEPT !.ok = FALSE]
    /\ UNCHANGED <<variant, table, debug, cover, last, store>>
    /\ UNCHANGED hostVars

\* The script is started again (a reboot, a restart) once the host has
\* worked off the calls. A restart with calls pending leaves a store that
\* is among the initial ones.
RestartScript ==
    /\ prov.phase = "started"
    /\ rpc = <<>>
    /\ prov.run < MaxRuns
    /\ prov' = [prov EXCEPT !.phase = "boot"]
    /\ UNCHANGED <<variant, table, debug, cover, last, store, rpc>>
    /\ UNCHANGED hostVars

NextProv ==
    StartScript \/ HostDeletes \/ HostAdds \/ HostFails \/ RestartScript

SpecProv == InitProv /\ [][NextProv]_vars

-----------------------------------------------------------------------------
(* Properties of the guard and the router, checked under Spec *)

Invs == { last.invs[k] : k \in 1..Len(last.invs) }

Methods(cmds) == { cmds[k].method : k \in 1..Len(cmds) }

IsMovingStatus(status) == status.present /\ status.state \in MovingStates

IsSettledStatus(status) == status.present /\ ~(status.state \in MovingStates)

\* C1: a guard invocation that reads a status whose state is opening,
\* closing or calibrating issues exactly one command, a stop, whatever the
\* action asked for.
C1_MovingIssuesOneStop ==
    \A inv \in Invs :
        IsMovingStatus(inv.status) =>
            /\ Len(inv.cmds) = 1
            /\ inv.cmds[1].method = "Cover.Stop"

\* C1 witness: the status says closing, open is asked for, and the one
\* command issued is a stop.
C1_Witness ==
    \E inv \in Invs :
        /\ inv.status.present /\ inv.status.state = "closing"
        /\ inv.action = "open"
        /\ Len(inv.cmds) = 1 /\ inv.cmds[1].method = "Cover.Stop"

\* C2: a guard invocation asked to open issues an open command exactly
\* when it read a status that is neither open nor moving; when the state
\* is open it issues nothing.
C2_OpenIffNotOpenNotMoving ==
    \A inv \in Invs :
        inv.action = "open" =>
            /\ ("Cover.Open" \in Methods(inv.cmds)) <=>
                   (IsSettledStatus(inv.status) /\ inv.status.state # "open")
            /\ (inv.status.present /\ inv.status.state = "open") =>
                   inv.cmds = <<>>

\* C2 witness: open is asked for with the cover settled and not open, and
\* an open command is issued.
C2_Witness ==
    \E inv \in Invs :
        /\ inv.action = "open"
        /\ inv.status.present /\ inv.status.state = "stopped"
        /\ Methods(inv.cmds) = {"Cover.Open"}

\* C3: a guard invocation asked to close issues a close command exactly
\* when it read a status that is neither close nor moving; when the state
\* is close it issues nothing.
C3_CloseIffNotCloseNotMoving ==
    \A inv \in Invs :
        inv.action = "close" =>
            /\ ("Cover.Close" \in Methods(inv.cmds)) <=>
                   (IsSettledStatus(inv.status) /\ inv.status.state # "close")
            /\ (inv.status.present /\ inv.status.state = "close") =>
                   inv.cmds = <<>>

\* C3 witness: close is asked for with the cover open, and a close command
\* is issued.
C3_Witness ==
    \E inv \in Invs :
        /\ inv.action = "close"
        /\ inv.status.present /\ inv.status.state = "open"
        /\ Methods(inv.cmds) = {"Cover.Close"}

\* The indices of the table entries that match the event, in order.
MatchingEntries(tbl, event) ==
    SelectSeq([i \in 1..Len(tbl) |-> i], LAMBDA i : Matches(tbl[i], event))

\* C4: routing is first-match-wins: the entries whose action ran are the
\* first matching entry alone, or none when the source is of no known
\* family or no entry matches.
C4_FirstMatchWins ==
    (variant # "ws4" /\ last.event # NoEvent) =>
        LET m == MatchingEntries(table, last.event) IN
        last.fired =
            IF Prefix(last.event.component) \in FamilyPrefixes /\ m # <<>>
            THEN <<m[1]>> ELSE <<>>

\* The commands of the invocations, in order.
RECURSIVE CmdsOf(_)
CmdsOf(invs) ==
    IF invs = <<>> THEN <<>> ELSE Head(invs).cmds \o CmdsOf(Tail(invs))

\* A command agrees with a status: a stop needs a moving cover, an open a
\* settled cover that is not open, a close a settled cover that is not
\* close, a go-to-position a settled cover with another slat position.
Consistent(cmd, status) ==
    CASE cmd.method = "Cover.Stop" -> IsMovingStatus(status)
      [] cmd.method = "Cover.Open" ->
            IsSettledStatus(status) /\ status.state # "open"
      [] cmd.method = "Cover.Close" ->
            IsSettledStatus(status) /\ status.state # "close"
      [] cmd.method = "Cover.GoToPosition" ->
            IsSettledStatus(status) /\ cmd.slat_pos # status.slat_pos
      [] OTHER -> FALSE

\* C5: every command issued while an event is handled is issued by a guard
\* invocation and agrees with the status that invocation read.
C5_CommandsAgreeWithStatus ==
    /\ last.cmds = CmdsOf(last.invs)
    /\ \A inv \in Invs :
          \A k \in 1..Len(inv.cmds) : Consistent(inv.cmds[k], inv.status)

\* C5 witness: a cover reported open is asked to close by the virtual
\* button, and the close command is the only command of the event.
C5_Witness ==
    /\ last.event.component = "button:201"
    /\ Len(last.invs) = 1
    /\ last.invs[1].status.present /\ last.invs[1].status.state = "open"
    /\ Len(last.cmds) = 1 /\ last.cmds[1].method = "Cover.Close"

\* C6: one guard invocation issues at most one command.
C6_AtMostOneCommand ==
    \A inv \in Invs : Len(inv.cmds) <= 1

\* C6 witness: a slat request on a settled cover issues one go-to-position
\* command.
C6_Witness ==
    \E inv \in Invs :
        /\ inv.action = "slat_open"
        /\ IsSettledStatus(inv.status)
        /\ Len(inv.cmds) = 1 /\ inv.cmds[1].method = "Cover.GoToPosition"

LogsError(log) ==
    \E k \in 1..Len(log) :
        \/ log[k].level = "error"
        \/ log[k].msg = "Error: Unable to retrieve cover status"

\* C7: a guard invocation that gets no status logs an error, issues no
\* command and returns normally, so that the handler does not raise.
C7_NoStatusLogsAndAborts ==
    \A inv \in Invs :
        ~inv.status.present =>
            /\ inv.cmds = <<>>
            /\ LogsError(inv.log)
            /\ ~inv.threw
            /\ ~last.raised

\* C8: no error leaves the handler of the router: when a table action
\* raised, the error was logged and the handler returned normally.
C8_RouterNeverRaises ==
    variant # "ws4" =>
        /\ ~last.raised
        /\ (\E k \in 1..Len(last.fired) : table[last.fired[k]].do = "throw")
              => LogsError(last.log)


-----------------------------------------------------------------------------
(* Properties of initVirtualComponents, checked under SpecProv *)

DeclaredCalls(config, component) ==
    IF ~component.exists
    THEN << VirtualAdd("button", config.name) >>
    ELSE IF component.name # config.name
    THEN << VirtualDelete(config.key), VirtualAdd("button", config.name) >>
    ELSE <<>>

RECURSIVE CallsFrom(_, _)
CallsFrom(reads, i) ==
    IF i > Len(virtualComponents) THEN <<>>
    ELSE DeclaredCalls(virtualComponents[i], reads[i].component)
            \o CallsFrom(reads, i + 1)

\* C10: a run examines every declared component at its key and issues,
\* in declaration order, one add when nothing is there, a delete followed
\* by an add with the declared name when the name differs, and nothing
\* when the name is the declared one. Until the host executes a call, the
\* components examined are those of the store.
C10_CallsPerDeclaredComponent ==
    prov.run >= 1 =>
        /\ Len(prov.reads) = Len(virtualComponents)
        /\ \A i \in 1..Len(virtualComponents) :
              /\ prov.reads[i].key = virtualComponents[i].key
              /\ rpc = prov.calls =>
                    prov.reads[i].component = store[virtualComponents[i].key.id]
        /\ prov.calls = CallsFrom(prov.reads, 1)

\* C10 witness: button:200 carries another name and button:201 is absent;
\* the run issues delete button:200, add "CoverAction Open", add
\* "CoverAction Close".
C10_Witness ==
    /\ prov.run = 1 /\ rpc = prov.calls
    /\ store[200] = Component("Other") /\ ~store[201].exists
    /\ prov.calls = << VirtualDelete(Key("button", 200)),
                       VirtualAdd("button", "CoverAction Open"),
                       VirtualAdd("button", "CoverAction Close") >>

-----------------------------------------------------------------------------
(* Slat steps and the multi-button device, checked under Spec *)

\* The slat position the claim takes as current: the reported one, or 50
\* when the status carries none.
ClaimedCurrentSlat(status) ==
    IF status.slat_pos = Undef THEN 50 ELSE status.slat_pos

\* The target the claim asks for: 25 up for slat_open, 25 down for
\* slat_close, kept within 0..100.
ClaimedSlatTarget(status, action) ==
    LET raw == IF action = "slat_open" THEN ClaimedCurrentSlat(status) + 25
               ELSE ClaimedCurrentSlat(status) - 25
    IN  IF raw > 100 THEN 100 ELSE IF raw < 0 THEN 0 ELSE raw

\* C12: a guard invocation for slat_open or slat_close that reads a status
\* whose cover is not moving targets the current slat position plus or
\* minus 25, clamped to 0..100, and issues one Cover.GoToPosition with
\* that slat position exactly when the target differs from the current
\* slat position; otherwise it issues nothing.
C12_SlatStepClamped ==
    \A inv \in Invs :
        (IsSettledStatus(inv.status)
            /\ inv.action \in {"slat_open", "slat_close"}) =>
            LET cur == ClaimedCurrentSlat(inv.status)
                target == ClaimedSlatTarget(inv.status, inv.action)
            IN  /\ target \in 0..100
                /\ IF target # cur
                   THEN inv.cmds = << [method |-> "Cover.GoToPosition",
                                       id |-> coverId, pos |-> Undef,
                                       slat_pos |-> target] >>
                   ELSE inv.cmds = <<>>

\* C12 witness: slat_open with the slats at 90 goes to 100.
C12_Witness ==
    \E inv \in Invs :
        /\ inv.action = "slat_open"
        /\ IsSettledStatus(inv.status) /\ inv.status.slat_pos = 90
        /\ Len(inv.cmds) = 1 /\ inv.cmds[1].slat_pos = 100

\* The actions handed to the guard by the last event, in order.
ActionsOf(invs) == [k \in 1..Len(invs) |-> invs[k].action]

\* The last event came from the multi-button device and was dispatched
\* through the shipped table.
MultiButtonEvent ==
    /\ variant # "ws4" /\ table = ConfigTable
    /\ last.event.component = "bthomedevice:200"

\* C13: for an event from the multi-button device, payload index 0 hands
\* open to the guard, 1 close, 2 slat_open, 3 slat_close; with any other
\* index the guard is not invoked and no command is issued.
C13_IndexSelectsAction ==
    MultiButtonEvent =>
        CASE last.event.idx = 0 -> ActionsOf(last.invs) = <<"open">>
          [] last.event.idx = 1 -> ActionsOf(last.invs) = <<"close">>
          [] last.event.idx = 2 -> ActionsOf(last.invs) = <<"slat_open">>
          [] last.event.idx = 3 -> ActionsOf(last.invs) = <<"slat_close">>
          [] OTHER -> last.invs = <<>> /\ last.cmds = <<>>

\* C13 amended: as C13 in the script with slat support; in the two scripts
\* without slat support index 2 hands open and index 3 hands close to the
\* guard. With any index outside 0..3 the guard is not invoked and no
\* command is issued, in every script.
C13_IndexSelectsActionPerScript ==
    MultiButtonEvent =>
        CASE last.event.idx = 0 -> ActionsOf(last.invs) = <<"open">>
          [] last.event.idx = 1 -> ActionsOf(last.invs) = <<"close">>
          [] last.event.idx = 2 ->
                ActionsOf(last.invs) =
                    IF variant = "slat" THEN <<"slat_open">> ELSE <<"open">>
          [] last.event.idx = 3 ->
                ActionsOf(last.invs) =
                    IF variant = "slat" THEN <<"slat_close">> ELSE <<"close">>
          [] OTHER -> last.invs = <<>> /\ last.cmds = <<>>

\* C13 witness: index 2 in the script without slat support opens a
\* stopped cover.
C13_Witness ==
    /\ MultiButtonEvent /\ variant = "plain" /\ last.event.idx = 2
    /\ ActionsOf(last.invs) = <<"open">>
    /\ Methods(last.cmds) = {"Cover.Open"}

\* No entry of the table names the source of the event together with its
\* event type or the wildcard.
NoEntryFor(tbl, event) ==
    \A k \in 1..Len(tbl) :
        \/ tbl[k].component # event.component
        \/ ~(tbl[k].event \in {event.event, "all"})

\* C16: an event whose source starts with none of bthomesensor:,
\* bthomedevice:, button: runs no table action and causes no command, and
\* so does an event of a recognised family that no table entry matches.
C16_UnmatchedEventIsNoOp ==
    (variant # "ws4" /\ last.event # NoEvent
        /\ (\/ ~(Prefix(last.event.component)
                    \in {"bthomesensor:", "bthomedevice:", "button:"})
            \/ NoEntryFor(table, last.event))) =>
        /\ last.fired = <<>>
        /\ last.invs = <<>>
        /\ last.cmds = <<>>
        /\ ~last.raised

\* C16 witness: a single push of button:202, which the shipped table does
\* not list, was handled and did nothing.
C16_Witness ==
    /\ variant = "slat" /\ table = ConfigTable
    /\ last.event.component = "button:202"
    /\ last.event.event = "single_push"
    /\ last.fired = <<>> /\ last.cmds = <<>>

\* An event from input:0, a source of no recognised family, was handled
\* and did nothing.
C16_ForeignSourceHandled ==
    /\ variant # "ws4"
    /\ last.event.component = "input:0"
    /\ last.fired = <<>> /\ last.cmds = <<>> /\ last.log = <<>>

-----------------------------------------------------------------------------
(* Completion callbacks of Shelly.call *)

\* error_code as the host hands it to a completion callback: 0 for success,
\* a negative code for a failure.
ErrorCodes == {0, -1, -103}

\* The failure branch of a completion callback; the "plain" and "ws4"
\* scripts print the host's message.
CallbackFailure(v, line) ==
    IF HasDebugLog(v) THEN errorLog(line) ELSE print("error_message")

\* Mutant: the failure branch of the Cover.Open callback calls coverOpen()
\* again.
CallbackRetriesOpen(v, method, error_code) ==
    CASE method = "Cover.Stop" ->
            IF error_code = 0 THEN print("Cover is stopped")
            ELSE CallbackFailure(v, "Failed to stop cover")
      [] method = "Cover.Open" ->
            IF error_code = 0 THEN print("Cover is opening")
            ELSE Then(CallbackFailure(v, "Failed to open cover"), coverOpen(v))
      [] method = "Cover.Close" ->
            IF error_code = 0 THEN print("Cover is closing")
            ELSE CallbackFailure(v, "Failed to close cover")
      [] method = "Cover.GoToPosition" ->
            IF error_code = 0 THEN print("Cover position set successfully")
            ELSE CallbackFailure(v, "Failed to set cover position")
      [] method = "HTTP.GET" ->
            IF error_code = 0 THEN print("Trigger successful")
            ELSE CallbackFailure(v, "HTTP request failed")
      [] OTHER -> NoOut

\* The completion callback that the script passed to Shelly.call(method,
\* ...), run with the error code of the response.
Callback(v, method, error_code) ==
    CASE method = "Cover.Stop" ->
            IF error_code = 0 THEN print("Cover is stopped")
            ELSE CallbackFailure(v, "Failed to stop cover")
      [] method = "Cover.Open" ->
            IF error_code = 0 THEN print("Cover is opening")
            ELSE CallbackFailure(v, "Failed to open cover")
      [] method = "Cover.Close" ->
            IF error_code = 0 THEN print("Cover is closing")
            ELSE CallbackFailure(v, "Failed to close cover")
      [] method = "Cover.GoToPosition" ->
            IF error_code = 0 THEN print("Cover position set successfully")
            ELSE CallbackFailure(v, "Failed to set cover position")
      [] method = "HTTP.GET" ->
            IF error_code = 0 THEN print("Trigger successful")
            ELSE CallbackFailure(v, "HTTP request failed")
      [] OTHER -> NoOut

\* What `done` holds after a completion callback ran.
Completed(method, error_code, o) ==
    [method |-> method, error_code |-> error_code, cmds |-> o.cmds,
     log |-> o.log]

\* The sequence q without its element at index i.
Without(q, i) == SubSeq(q, 1, i - 1) \o SubSeq(q, i + 1, Len(q))

\* The most requests the host keeps outstanding at a time.
MaxInflight == 2

-----------------------------------------------------------------------------
(* SpecTrigger: triggerButtonEvent *)

\* JavaScript values handed to triggerButtonEvent.
JsNull == [kind |-> "null", s |-> "", n |-> 0]
JsUndefined == [kind |-> "undefined", s |-> "", n |-> 0]
JsStr(s) == [kind |-> "string", s |-> s, n |-> 0]
JsNum(n) == [kind |-> "number", s |-> "", n |-> n]

\* !x is false: x is neither null nor undefined, nor "", nor 0.
Truthy(x) ==
    \/ x.kind = "string" /\ x.s # ""
    \/ x.kind = "number" /\ x.n # 0

\* Mutant: only the device address is tested.
triggerButtonEventTestsAddressOnly(v, deviceIp, buttonId, event) ==
    IF ~Truthy(deviceIp) THEN
        IF v = "plain" THEN print("Missing arguments")
        ELSE errorLog("Missing arguments for triggerButtonEvent")
    ELSE Then(print("Triggering event"),
              Out(<<>>, <<>>,
                  << [method |-> "HTTP.GET", host |-> deviceIp.s,
                      path |-> "/rpc/Button.Trigger",
                      id |-> buttonId, event |-> event] >>,
                  <<>>, FALSE))

\* triggerButtonEvent(deviceIp, buttonId, event). The url is kept in
\* parts: "http://" host path "?id=" id "&event=" event, where id and
\* event are the arguments as the string concatenation renders them.
triggerButtonEvent(v, deviceIp, buttonId, event) ==
    IF ~Truthy(deviceIp) \/ ~Truthy(buttonId) \/ ~Truthy(event) THEN
        IF v = "plain" THEN print("Missing arguments")
        ELSE errorLog("Missing arguments for triggerButtonEvent")
    ELSE Then(print("Triggering event"),
              Out(<<>>, <<>>,
                  << [method |-> "HTTP.GET", host |-> deviceIp.s,
                      path |-> "/rpc/Button.Trigger",
                      id |-> buttonId, event |-> event] >>,
                  <<>>, FALSE))

DeviceIpArgs == {JsNull, JsStr(""), JsStr("192.168.2.42")}

\* Input ids: none, input 0, and the two ids that the commented calls in
\* CONFIG.eventActions and the claims use.
ButtonIdArgs == {JsNull, JsUndefined, JsNum(0), JsNum(5), JsNum(FirstId)}

EventArgs ==
    {JsNull, JsStr(""), JsStr(EVENT_BUTTON_SINGLE_PUSH),
     JsStr(EVENT_BUTTON_LONG_PUSH)}

\* What `trig` holds after a call of triggerButtonEvent.
Triggered(deviceIp, buttonId, event, o) ==
    [called |-> TRUE, deviceIp |-> deviceIp, buttonId |-> buttonId,
     event |-> event, cmds |-> o.cmds, log |-> o.log]

InitTrigger ==
    /\ variant \in Variants \ {"ws4"}
    /\ table = ConfigTable
    /\ debug = FALSE
    /\ cover = NoStatus
    /\ last = Handled(NoEvent, NoOut)
    /\ store = <<>>
    /\ rpc = <<>>
    /\ prov = NoProv
    /\ HostIdle

\* Script code calls triggerButtonEvent.
TriggerCalled ==
    /\ \E deviceIp \in DeviceIpArgs, buttonId \in ButtonIdArgs,
          event \in EventArgs :
          LET o == triggerButtonEvent(variant, deviceIp, buttonId, event) IN
          /\ Len(inflight) + Len(o.cmds) <= MaxInflight
          /\ trig' = Triggered(deviceIp, buttonId, event, o)
          /\ inflight' = inflight \o o.cmds
    /\ done' = NoDone
    /\ UNCHANGED <<variant, table, debug, cover, last, store, rpc, prov,
                   sys, seen>>

\* The host has the response of an outstanding request and runs its
\* completion callback; what the callback issues joins the outstanding
\* requests.
RequestCompletes ==
    /\ \E i \in 1..Len(inflight), error_code \in ErrorCodes :
          LET o == Callback(variant, inflight[i].method, error_code) IN
          /\ done' = Completed(inflight[i].method, error_code, o)
          /\ inflight' = Without(inflight, i) \o o.cmds
    /\ trig' = NoTrig
    /\ last' = Handled(NoEvent, NoOut)
    /\ UNCHANGED <<variant, table, debug, cover, store, rpc, prov, sys, seen>>

NextTrigger == TriggerCalled \/ RequestCompletes

SpecTrigger == InitTrigger /\ [][NextTrigger]_vars

-----------------------------------------------------------------------------
(* Properties of triggerButtonEvent, checked under SpecTrigger *)

\* An argument the caller left out: null, undefined or the empty string.
Missing(x) ==
    \/ x.kind \in {"null", "undefined"}
    \/ x.kind = "string" /\ x.s = ""

MissingArgumentLogged(log) ==
    \E k \in 1..Len(log) :
        log[k].msg \in {"Missing arguments for triggerButtonEvent",
                        "Missing arguments"}

\* C14: a call of triggerButtonEvent with the device address, the input id
\* or the event type missing (null, undefined or empty) issues no request
\* and logs the missing-argument message.
C14_MissingArgumentNoRequest ==
    (trig.called
        /\ (Missing(trig.deviceIp) \/ Missing(trig.buttonId)
                \/ Missing(trig.event))) =>
        /\ trig.cmds = <<>>
        /\ MissingArgumentLogged(trig.log)

\* C14 witness: triggerButtonEvent(null, 5, "single_push") was called and
\* nothing is outstanding.
C14_Witness ==
    /\ trig.called
    /\ trig.deviceIp = JsNull /\ trig.buttonId = JsNum(5)
    /\ trig.event = JsStr("single_push")
    /\ trig.cmds = <<>> /\ inflight = <<>>
    /\ MissingArgumentLogged(trig.log)

\* C15: a call of triggerButtonEvent with the three arguments present,
\* where any number from 0 on is a present input id, issues exactly one
\* HTTP.GET whose url carries that address, that id and that event type;
\* and a completion callback that is handed a failure issues no request.
C15_PresentArgumentsOneRequest ==
    /\ (trig.called /\ ~Missing(trig.deviceIp) /\ ~Missing(trig.buttonId)
            /\ ~Missing(trig.event)) =>
            /\ Len(trig.cmds) = 1
            /\ trig.cmds[1].method = "HTTP.GET"
            /\ trig.cmds[1].host = trig.deviceIp.s
            /\ trig.cmds[1].id = trig.buttonId
            /\ trig.cmds[1].event = trig.event
    /\ (done.method = "HTTP.GET" /\ done.error_code # 0) => done.cmds = <<>>

-----------------------------------------------------------------------------
(* SpecBoot: script start, the startup timer and the subscription *)

\* Mutant: Timer.set(1000, true, ...), a repeating timer.
TimerRepeatTrue == TRUE

\* The second argument of Timer.set(1000, false, callback).
TimerRepeat == FALSE

\* How often the model lets a timer fire.
MaxTimerFires == 2

\* `sys` before the top-level code of the script has run.
SysLoad == [pc |-> "load", armed |-> FALSE, fires |-> 0, handlers |-> 0]

\* Shelly.addEventHandler(callback): one more registered handler.
addEventHandler(handlers) == handlers + 1

\* The host hands an event to each of the n registered handlers in turn.
RECURSIVE DeliverTo(_, _, _, _, _, _)
DeliverTo(n, v, dbg, status, tbl, event) ==
    IF n = 0 THEN NoOut
    ELSE Then(EventHandler(v, dbg, status, tbl, event),
              DeliverTo(n - 1, v, dbg, status, tbl, event))

\* The stores looked at: button:200 absent or carrying any name, the other
\* ids free.
BootStores ==
    { st \in Stores : \A id \in ButtonIds : id # FirstId => ~st[id].exists }

BootStatuses ==
    { status \in Statuses :
        /\ status.slat_pos = Undef
        /\ status.state \in {"none", "stopped", "opening", "open"} }

BootEvents ==
    { event \in Events :
        /\ event.event = EVENT_BUTTON_SINGLE_PUSH
        /\ event.component \in {"button:200", "bthomesensor:202", "input:0",
                                 "bthomedevice:200"} }

InitBoot ==
    /\ variant \in Variants \ {"ws4"}
    /\ table = ConfigTable
    /\ debug \in (IF HasDebugLog(variant) THEN BOOLEAN ELSE {FALSE})
    /\ cover \in BootStatuses
    /\ last = Handled(NoEvent, NoOut)
    /\ store \in BootStores
    /\ rpc = <<>>
    /\ prov = ProvBoot
    /\ sys = SysLoad
    /\ inflight = <<>>
    /\ done = NoDone
    /\ seen = <<>>
    /\ trig = NoTrig

\* The top-level code of the script runs: initVirtualComponents(), then
\* Timer.set(1000, false, callback).
ScriptLoads ==
    /\ sys.pc = "load"
    /\ LET r == initVirtualComponents(variant, debug, store) IN
       /\ prov' = [phase |-> "started", run |-> prov.run + 1,
                   reads |-> r.reads, calls |-> r.calls, log |-> r.log,
                   ok |-> TRUE, prevOk |-> FALSE]
       /\ rpc' = r.calls
    /\ sys' = [sys EXCEPT !.pc = "waiting", !.armed = TRUE]
    /\ UNCHANGED <<variant, table, debug, cover, last, store>>
    /\ UNCHANGED <<inflight, done, seen, trig>>

\* The timer fires and its callback runs initEventActions(), which
\* registers the event handler. A timer set with repeat false is gone
\* once it has fired.
TimerFires ==
    /\ sys.armed
    /\ sys.fires < MaxTimerFires
    /\ sys' = [pc |-> "subscribed", armed |-> TimerRepeat,
               fires |-> sys.fires + 1,
               handlers |-> addEventHandler(sys.handlers)]
    /\ UNCHANGED <<variant, table, debug, cover, last, store, rpc, prov>>
    /\ UNCHANGED <<inflight, done, seen, trig>>

\* The host has an event and hands it to the handlers registered so far;
\* with none registered the event is lost to the script.
EventArrives ==
    /\ \E event \in BootEvents :
          last' = Handled(event,
                     DeliverTo(sys.handlers, variant, debug, cover, table,
                               event))
    /\ UNCHANGED <<variant, table, debug, cover, store, rpc, prov>>
    /\ UNCHANGED hostVars

\* The actuator, or the status provider, changes what it reports.
CoverChangesBoot ==
    /\ \E status \in BootStatuses : status # cover /\ cover' = status
    /\ last' = Handled(NoEvent, NoOut)
    /\ UNCHANGED <<variant, table, debug, store, rpc, prov, hostVars>>

NextBoot ==
    \/ ScriptLoads
    \/ CoverChangesBoot
    \/ HostDeletes
    \/ HostAdds
    \/ HostFails
    \/ TimerFires
    \/ EventArrives

SpecBoot == InitBoot /\ [][NextBoot]_vars

-----------------------------------------------------------------------------
(* Properties of the startup, checked under SpecBoot *)

\* C17: initVirtualComponents runs once, and has run and issued its calls
\* by the time the event handler is registered; the handler is registered
\* once, and only by the timer callback, which runs once because the timer
\* is gone after firing; and as long as no handler is registered no event
\* reaches a table entry or the guard, and none causes a command.
C17_StartupOrder ==
    /\ prov.run <= 1 /\ sys.fires <= 1 /\ sys.handlers <= 1
    /\ sys.handlers = sys.fires
    /\ sys.fires >= 1 => ~sys.armed
    /\ sys.handlers >= 1 =>
          /\ prov.run = 1 /\ prov.phase = "started"
          /\ prov.calls = CallsFrom(prov.reads, 1)
          /\ \E k \in 0..Len(prov.calls) :
                rpc = SubSeq(prov.calls, k + 1, Len(prov.calls))
    /\ sys.handlers = 0 =>
          last.fired = <<>> /\ last.invs = <<>> /\ last.cmds = <<>>

\* C17 witness: the handler is registered while the host has not yet
\* executed the calls of initVirtualComponents, and an event has been
\* routed to the guard.
C17_Witness ==
    /\ sys.pc = "subscribed" /\ sys.handlers = 1
    /\ prov.calls # <<>> /\ rpc = prov.calls
    /\ Len(last.invs) = 1 /\ last.cmds # <<>>

\* An event arrived before the handler was registered and was not routed.
C17_EventBeforeSubscription ==
    /\ sys.pc = "waiting" /\ sys.handlers = 0
    /\ last.event.component = "button:200"
    /\ last.invs = <<>>

-----------------------------------------------------------------------------
(* SpecCmd: cover commands in flight and their completion *)

\* The elements of a sequence.
Range(q) == { q[k] : k \in 1..Len(q) }

\* Mutant: a command equal to an outstanding one is not sent.
IssueUnlessOutstanding(q, cmds) ==
    q \o SelectSeq(cmds, LAMBDA c : ~(c \in Range(q)))

\* Shelly.call hands each request to the host at once; the script keeps
\* no record of the requests that are outstanding.
Issue(q, cmds) == q \o cmds

CmdStatuses ==
    { status \in Statuses : status.slat_pos \in {Undef, SlatMax} }

CmdEvents ==
    { event \in Events :
        /\ event.event = EVENT_BUTTON_SINGLE_PUSH
        /\ event.component \in {"button:200", "button:201",
                                 "bthomesensor:201", "bthomesensor:202",
                                 "bthomedevice:200"} }

\* The handler of the installed script.
InstalledHandler(v, dbg, status, tbl, event) ==
    IF v = "ws4" THEN EventHandlerWs4(status, event)
    ELSE EventHandler(v, dbg, status, tbl, event)

InitCmd ==
    /\ variant \in Variants
    /\ table = (IF variant = "ws4" THEN <<>> ELSE ConfigTable)
    /\ debug = FALSE
    /\ cover \in CmdStatuses
    /\ last = Handled(NoEvent, NoOut)
    /\ store = <<>>
    /\ rpc = <<>>
    /\ prov = NoProv
    /\ HostIdle

\* The host delivers an event; the handler runs to its end, and the
\* commands it issued are outstanding when it returns.
EventSends ==
    /\ \E event \in CmdEvents :
          LET o == InstalledHandler(variant, debug, cover, table, event) IN
          /\ Len(inflight) + Len(o.cmds) <= MaxInflight
          /\ last' = Handled(event, o)
          /\ inflight' = Issue(inflight, o.cmds)
    /\ done' = NoDone
    /\ UNCHANGED <<variant, table, debug, cover, store, rpc, prov,
                   sys, seen, trig>>

\* The actuator, or the status provider, changes what it reports; this
\* is not tied to the completion of a command.
CoverChangesCmd ==
    /\ \E status \in CmdStatuses : status # cover /\ cover' = status
    /\ last' = Handled(NoEvent, NoOut)
    /\ done' = NoDone
    /\ UNCHANGED <<variant, table, debug, store, rpc, prov,
                   sys, inflight, seen, trig>>

NextCmd == EventSends \/ RequestCompletes \/ CoverChangesCmd

SpecCmd == InitCmd /\ [][NextCmd]_vars

-----------------------------------------------------------------------------
(* Properties of commands in flight, checked under SpecCmd *)

CoverMethods ==
    {"Cover.Stop", "Cover.Open", "Cover.Close", "Cover.GoToPosition"}

\* C18: when the handler has returned, the commands it issued are still
\* outstanding; and the completion callback of a stop, open, close or
\* go-to-position issues no command, and logs when it is handed a nonzero
\* error code.
C18_FireAndForget ==
    /\ last.event # NoEvent => \A k \in 1..Len(last.cmds) :
                                    last.cmds[k] \in Range(inflight)
    /\ done.method \in CoverMethods =>
          /\ done.cmds = <<>>
          /\ done.error_code # 0 => done.log # <<>>

\* C18 witness: the callback of a Cover.Open was handed a nonzero error
\* code; it logged, and nothing is outstanding.
C18_Witness ==
    /\ done.method = "Cover.Open" /\ done.error_code # 0
    /\ done.cmds = <<>> /\ done.log # <<>>
    /\ inflight = <<>>

\* C19: a guard invocation for open that reads a settled status other
\* than open issues Cover.Open whatever is outstanding; and in every step
\* that delivers an event, each command of the handler is handed to the
\* host, behind the requests that were outstanding, none of which is
\* withdrawn.
C19_NoInFlightGuard ==
    /\ [](\A inv \in Invs :
            (inv.action = "open" /\ IsSettledStatus(inv.status)
                /\ inv.status.state # "open") =>
                Methods(inv.cmds) = {"Cover.Open"})
    /\ [][last'.event # NoEvent => inflight' = inflight \o last'.cmds]_vars

\* C19 witness: two Cover.Open are outstanding, the second one issued by
\* the latest event on a status that is still stopped.
C19_Witness ==
    /\ Len(inflight) = 2
    /\ inflight[1].method = "Cover.Open" /\ inflight[2].method = "Cover.Open"
    /\ cover.present /\ cover.state = "stopped"
    /\ Len(last.invs) = 1 /\ last.invs[1].action = "open"
    /\ last.cmds = << inflight[2] >>

-----------------------------------------------------------------------------
(* SpecFresh: the status a guard invocation reads *)

\* Mutant: the status read by an earlier invocation is kept and used.
getComponentStatusCached(current, readings) ==
    IF readings # <<>> THEN readings[Len(readings)] ELSE current

\* Shelly.getComponentStatus("cover", CONFIG.coverId): a synchronous read
\* of what the host reports now; the script keeps no earlier reading.
getComponentStatus(current, readings) == current

\* The last two elements of a sequence.
LastTwo(q) == IF Len(q) <= 2 THEN q ELSE SubSeq(q, Len(q) - 1, Len(q))

InitFresh ==
    /\ variant \in Variants
    /\ table = (IF variant = "ws4" THEN <<>> ELSE ConfigTable)
    /\ debug = FALSE
    /\ cover \in CmdStatuses
    /\ last = Handled(NoEvent, NoOut)
    /\ store = <<>>
    /\ rpc = <<>>
    /\ prov = NoProv
    /\ HostIdle

\* The host delivers an event; each guard invocation of the handler reads
\* the status.
EventReads ==
    /\ \E event \in CmdEvents :
          LET o == InstalledHandler(variant, debug,
                       getComponentStatus(cover, seen), table, event)
          IN  /\ last' = Handled(event, o)
              /\ seen' = LastTwo(seen \o [k \in 1..Len(o.invs) |->
                                              o.invs[k].status])
    /\ UNCHANGED <<variant, table, debug, cover, store, rpc, prov,
                   sys, inflight, done, trig>>

\* The actuator, or the status provider, changes what it reports.
CoverChangesFresh ==
    /\ \E status \in CmdStatuses : status # cover /\ cover' = status
    /\ last' = Handled(NoEvent, NoOut)
    /\ UNCHANGED <<variant, table, debug, store, rpc, prov, hostVars>>

NextFresh == EventReads \/ CoverChangesFresh

SpecFresh == InitFresh /\ [][NextFresh]_vars

-----------------------------------------------------------------------------
(* Properties of the status reading, checked under SpecFresh *)

ClaimedCommand(method, slat_pos) ==
    << [method |-> method, id |-> coverId, pos |-> Undef,
        slat_pos |-> slat_pos] >>

\* The commands that the guard rules give for a status and an action:
\* nothing without a status, a stop while moving, open unless open, close
\* unless closed, a slat step unless the slats are at the end already.
ClaimedCommands(status, action) ==
    IF ~status.present THEN <<>>
    ELSE IF status.state \in {"opening", "closing", "calibrating"}
    THEN ClaimedCommand("Cover.Stop", Undef)
    ELSE CASE action = "open" ->
                IF status.state # "open"
                THEN ClaimedCommand("Cover.Open", Undef) ELSE <<>>
           [] action = "close" ->
                IF status.state # "close"
                THEN ClaimedCommand("Cover.Close", Undef) ELSE <<>>
           [] OTHER ->
                IF ClaimedSlatTarget(status, action) # ClaimedCurrentSlat(status)
                THEN ClaimedCommand("Cover.GoToPosition",
                                    ClaimedSlatTarget(status, action))
                ELSE <<>>

\* C20: every guard invocation of the latest event read the status that
\* the host reports at that event, not an earlier reading, and its
\* commands are those that the guard rules give for that status and the
\* action, whatever was read or issued before.
C20_StatusReadAtInvocation ==
    \A inv \in Invs :
        /\ inv.status = cover
        /\ inv.cmds = ClaimedCommands(cover, inv.action)

\* C20 witness: an open request read "stopped"; the cover then reported
\* "open", and the next open request read "open" and issued nothing.
C20_Witness ==
    /\ Len(seen) = 2
    /\ seen[1].present /\ seen[1].state = "stopped"
    /\ seen[2] = cover /\ cover.state = "open"
    /\ Len(last.invs) = 1 /\ last.invs[1].action = "open"
    /\ last.invs[1].status = cover
    /\ last.cmds = <<>>

-----------------------------------------------------------------------------
(* Further properties of the slat steps, checked under Spec *)

\* C21: every Cover.GoToPosition that a guard invocation for slat_open or
\* slat_close issues carries the cover id and a slat position and no
\* cover position, whatever the status.
C21_SlatCommandHasNoPos ==
    \A inv \in Invs :
        inv.action \in {"slat_open", "slat_close"} =>
            \A k \in 1..Len(inv.cmds) :
                inv.cmds[k].method = "Cover.GoToPosition" =>
                    /\ inv.cmds[k].id = coverId
                    /\ inv.cmds[k].pos = Undef
                    /\ inv.cmds[k].slat_pos \in 0..100

\* C21 witness: slat_close with the slats at 10 issues a go-to-position
\* with slat position 0 and no cover position.
C21_Witness ==
    \E inv \in Invs :
        /\ inv.action = "slat_close" /\ inv.status.slat_pos = 10
        /\ Len(inv.cmds) = 1
        /\ inv.cmds[1].method = "Cover.GoToPosition"
        /\ inv.cmds[1].pos = Undef /\ inv.cmds[1].slat_pos = 0

\* C22: a guard invocation that reads a status with no slat position and
\* a cover that is not moving issues one go-to-position with slat
\* position 75 for slat_open and one with slat position 25 for slat_close.
C22_UnreportedSlatIsFifty ==
    \A inv \in Invs :
        (IsSettledStatus(inv.status) /\ inv.status.slat_pos = Undef) =>
            /\ inv.action = "slat_open" =>
                  /\ Methods(inv.cmds) = {"Cover.GoToPosition"}
                  /\ Len(inv.cmds) = 1 /\ inv.cmds[1].slat_pos = 75
            /\ inv.action = "slat_close" =>
                  /\ Methods(inv.cmds) = {"Cover.GoToPosition"}
                  /\ Len(inv.cmds) = 1 /\ inv.cmds[1].slat_pos = 25

\* C22 witness: slat_close on a stopped cover that reports no slat
\* position goes to slat position 25.
C22_Witness ==
    \E inv \in Invs :
        /\ inv.action = "slat_close"
        /\ inv.status.present /\ inv.status.state = "stopped"
        /\ inv.status.slat_pos = Undef
        /\ Len(inv.cmds) = 1 /\ inv.cmds[1].slat_pos = 25

-----------------------------------------------------------------------------
(* Further properties of initVirtualComponents, checked under SpecProv *)

\* C23: whether or not a call of the run has failed, the run has examined
\* every declared component and issued the calls each one requires; and a
\* step in which the host fails a call removes that call alone, so the
\* calls queued behind it, those of the remaining components included,
\* stay with the host.
C23_FailureDoesNotAbort ==
    /\ [](prov.run >= 1 =>
            /\ Len(prov.reads) = Len(virtualComponents)
            /\ prov.calls = CallsFrom(prov.reads, 1))
    /\ [][(rpc' # rpc /\ store' = store /\ prov'.run = prov.run) =>
            /\ rpc' = Tail(rpc)
            /\ prov'.calls = prov.calls /\ prov'.reads = prov.reads]_vars

\* C23 witness: both declared components were missing; the add of
\* "CoverAction Open" has failed, and the add of "CoverAction Close" is
\* still with the host.
C23_Witness ==
    /\ prov.run = 1 /\ ~prov.ok
    /\ ~prov.reads[1].component.exists /\ ~prov.reads[2].component.exists
    /\ prov.calls = << VirtualAdd("button", "CoverAction Open"),
                       VirtualAdd("button", "CoverAction Close") >>
    /\ rpc = << VirtualAdd("button", "CoverAction Close") >>

-----------------------------------------------------------------------------
(* The debug flag, checked under SpecBoot *)

\* C24: in the scripts that have CONFIG.debug, every step that delivers
\* an event leaves the cover commands that the handlers issue for the same
\* event and status with the flag the other way round; and the Virtual.Add
\* and Virtual.Delete calls of the run are those that
\* initVirtualComponents issues for the same store with the flag the
\* other way round. Until the host executes a call, the store is the one
\* the run read.
C24_DebugDoesNotChangeCalls ==
    /\ [][(HasDebugLog(variant) /\ last' # last /\ last'.event # NoEvent) =>
            last'.cmds = DeliverTo(sys.handlers, variant, ~debug, cover,
                                   table, last'.event).cmds]_vars
    /\ []((HasDebugLog(variant) /\ prov.run >= 1 /\ rpc = prov.calls) =>
            prov.calls = initVirtualComponents(variant, ~debug, store).calls)

\* C24 witness: with debug on, a run of initVirtualComponents issued
\* calls and logged at debug level, and a slat step both logged at debug
\* level and issued its command.
C24_Witness ==
    /\ debug /\ variant = "slat" /\ sys.handlers = 1
    /\ prov.calls # <<>>
    /\ \E k \in 1..Len(prov.log) : prov.log[k].level = "debug"
    /\ \E k \in 1..Len(last.log) : last.log[k].msg = "Adjusting slat position"
    /\ Methods(last.cmds) = {"Cover.GoToPosition"}

-----------------------------------------------------------------------------
(* The wall-switch-4 script, checked under Spec *)

\* C25: in the "ws4" script an event from bthomesensor:201 or :203 issues
\* what the guard rules give for open on the status reported at the event,
\* one from bthomesensor:202 or :204 what they give for close, and an
\* event from any other component issues nothing and does not raise; no
\* event issues more than one command.
C25_Ws4ButtonsThroughGuard ==
    (variant = "ws4" /\ last.event # NoEvent) =>
        /\ Len(last.cmds) <= 1
        /\ CASE last.event.component
                    \in {"bthomesensor:201", "bthomesensor:203"} ->
                  last.cmds = ClaimedCommands(cover, "open")
             [] last.event.component
                    \in {"bthomesensor:202", "bthomesensor:204"} ->
                  last.cmds = ClaimedCommands(cover, "close")
             [] OTHER -> last.cmds = <<>> /\ ~last.raised

\* C25 witness: an event from bthomesensor:204 with the cover open issued
\* one Cover.Close.
C25_Witness ==
    /\ variant = "ws4"
    /\ last.event.component = "bthomesensor:204"
    /\ cover.present /\ cover.state = "open"
    /\ Len(last.cmds) = 1 /\ last.cmds[1].method = "Cover.Close"

\* An event from a button component reached the "ws4" handler and issued
\* nothing.
C25_OtherComponentHandled ==
    /\ variant = "ws4"
    /\ last.event.component = "button:200"
    /\ cover.present /\ cover.state = "stopped"
    /\ last.cmds = <<>> /\ ~last.raised

====
